---- MODULE Spec2Model ----
(***************************************************************************)
(* A model of the uber-scraper repository: the generic retry decorator,    *)
(* the Scraper session/proxy manager (src/scraper.py) and the UberScraper  *)
(* authentication and price-extraction flows with the run() orchestration  *)
(* (src/uber_scraper.py).                                                   *)
(*                                                                         *)
(* Four specifications share the module:                                   *)
(*   SpecRetry   - the retry decorator applied to an arbitrary operation   *)
(*   SpecParse   - Scraper._configure_proxy applied to an arbitrary string *)
(*   SpecCookies - Scraper.save_cookies followed by Scraper.load_cookies   *)
(*   Spec        - UberScraper(proxy_list, threshold) followed by run()    *)
(***************************************************************************)
EXTENDS Integers, Sequences, FiniteSets, TLC

VARIABLES
    \* ---- SpecRetry: one call of a function decorated with retry -------
    r_max,          \* the decorator's max_attempts argument
    r_oracle,       \* outcome of the i-th invocation of the wrapped function
    r_attempts,     \* wrapper local "attempts"
    r_calls,        \* number of invocations of the wrapped function so far
    r_sleeps,       \* number of time.sleep(delay) calls so far
    r_pc,           \* "idle" | "loop" | "returned" | "raised"
    r_result,       \* what the wrapper returned or raised
    \* ---- SpecParse: _configure_proxy on one raw proxy string ----------
    p_raw,          \* the raw proxy string, a sequence of characters
    p_pc,           \* "idle" | "start" | "done"
    p_result,       \* outcome of _configure_proxy
    \* ---- SpecCookies: save_cookies then load_cookies ------------------
    c_path,         \* cookies_path, a sequence of path components
    c_session,      \* current_driver.get_cookies(): a list of cookie dicts
    c_file,         \* content of the cookie file, or Absent
    c_add_fail_at,  \* index of the add_cookie call that raises (0: none)
    c_applied,      \* the cookies handed to current_driver.add_cookie
    c_refreshed,    \* whether current_driver.refresh() was called
    c_save_raised,  \* whether save_cookies raised
    c_pc,           \* "idle" | "save" | "load" | "done"
    \* ---- Spec: UberScraper(proxy_list, threshold) then run() ----------
    \* Scraper fields
    proxy_list,             \* self.proxy_list: raw proxy strings
    threshold,              \* self.proxy_rotation_threshold
    real_ip,                \* self.real_ip
    current_proxy_index,    \* self.current_proxy_index
    retries,                \* self.retries
    num_calls,              \* self.num_calls
    current_driver,         \* self.current_driver: NoDriver before it is set
    current_proxy_ip,       \* self.current_proxy_ip
    cookie_file,            \* content of the file at cookies_path
    \* the browsers
    driver_alive,           \* the session current_driver refers to is not quit
    orphans,                \* sessions instantiated, never assigned, never quit
    faults,                 \* failures the environment has injected so far
    page_marker,            \* the logged-in marker is on the current page
    on_captcha,             \* current_url is a CAPTCHA/interstitial url
    csv_rows,               \* the ride entry of each row appended to a csv file
    \* control
    pc,                     \* the statement the single control flow is at
    ip_attempts,            \* retry wrapper of _get_real_ip: attempts
    gd_attempts,            \* retry wrapper of get_driver: attempts
    gd_ret,                 \* caller of get_driver: "init" | "wg" | None
    wg_attempts,            \* retry wrapper of web_get: attempts
    wg_ret,                 \* caller of web_get: "gp" | "auth_login" | "auth_search"
    wg_result,              \* what the last web_get returned
    phase,                  \* "ctor" | "gp1" | "auth" | "gp2" | "done"
    auth_attempt,           \* authenticate: the loop variable attempt
    use_password,           \* authenticate: use_password
    gp_n,                   \* get_price: len(ride_types)
    gp_i,                   \* get_price: ride types handled so far
    gp_result,              \* how the last get_price ended
    auth_result,            \* how the last authenticate ended
    run_result,             \* how the program ended
    \* history
    sel_log,                \* the first credentials _configure_proxy selected
    leaks_seen,             \* number of leak detections so far
    only_real_seen,         \* every _check_proxy_ip so far saw the real ip
    last_leak_signal,       \* what the latest leak detection raised
    wg_rotated,             \* this web_get body called get_driver
    wg_new_session,         \* this web_get body assigned self.current_driver
    gp_calls,               \* invocations of get_price by run
    auth_calls,             \* invocations of authenticate by run
    auth_trace,             \* the steps the current authenticate attempt did
    auth_checks,            \* loop iterations authenticate has started
    gp_rows,                \* records the current get_price has persisted
    last_record             \* the record most recently handed to persistence

retryVars == <<r_max, r_oracle, r_attempts, r_calls, r_sleeps, r_pc, r_result>>
parseVars == <<p_raw, p_pc, p_result>>
cookieVars == <<c_path, c_session, c_file, c_add_fail_at, c_applied,
                c_refreshed, c_save_raised, c_pc>>
scraperVars == <<proxy_list, threshold, real_ip, current_proxy_index, retries,
                 num_calls, current_driver, current_proxy_ip, cookie_file>>
browserVars == <<driver_alive, orphans, faults, page_marker, on_captcha,
                 csv_rows>>
ctlVars == <<pc, ip_attempts, gd_attempts, gd_ret, wg_attempts, wg_ret,
             wg_result, phase, auth_attempt, use_password, gp_n, gp_i,
             gp_result, auth_result, run_result>>
histVars == <<sel_log, leaks_seen, only_real_seen, last_leak_signal,
              wg_rotated, wg_new_session, gp_calls, auth_calls, auth_trace,
              auth_checks, gp_rows, last_record>>
mainVars == <<scraperVars, browserVars, ctlVars, histVars>>
vars == <<retryVars, parseVars, cookieVars, mainVars>>

None == "None"
Absent == "Absent"
\* No record at hand.
NoRecord == <<>>

(***************************************************************************)
(* Bounds of the model.                                                    *)
(***************************************************************************)
MaxRetryParam == 3      \* max_attempts ranges over 0..MaxRetryParam
MaxRawLen == 7          \* raw proxy strings have at most this many characters
MaxCookies == 2         \* a session holds at most this many cookies
MaxPool == 2            \* proxy pools have at most this many entries
MaxThreshold == 2       \* proxy_rotation_threshold ranges over 1..MaxThreshold
MaxRides == 2           \* the ride-type list has at most this many entries
MaxSelLog == 4          \* the first MaxSelLog proxy selections are logged
MaxFaults == 2          \* the environment injects at most this many failures

(***************************************************************************)
(* retry(max_attempts, delay): src/scraper.py lines 17-33.                 *)
(***************************************************************************)
RetryMaxAttempts == 3

\* The while condition of the wrapper (line 22).
RetryLoopRuns(attempts, max_attempts) == attempts < max_attempts

\* A wrapper that re-raises one failure too late (attempts > max_attempts).
RetryOnException_LateRaise(attempts, max_attempts) ==
    [attempts |-> attempts + 1,
     raise    |-> attempts + 1 > max_attempts,
     sleep    |-> ~(attempts + 1 > max_attempts)]

\* The except branch of the wrapper (lines 25-29): attempts is incremented;
\* the exception is re-raised when attempts reaches max_attempts, otherwise
\* the wrapper sleeps and loops.
RetryOnException(attempts, max_attempts) ==
    [attempts |-> attempts + 1,
     raise    |-> attempts + 1 = max_attempts,
     sleep    |-> attempts + 1 # max_attempts]

RetryIdle ==
    /\ r_max = 0 /\ r_oracle = <<>> /\ r_attempts = 0 /\ r_calls = 0
    /\ r_sleeps = 0 /\ r_pc = "idle" /\ r_result = None

ParseIdle == p_raw = <<>> /\ p_pc = "idle" /\ p_result = None

CookiesIdle ==
    /\ c_path = <<>> /\ c_session = <<>> /\ c_file = Absent
    /\ c_add_fail_at = 0 /\ c_applied = <<>> /\ c_refreshed = FALSE
    /\ c_save_raised = FALSE /\ c_pc = "idle"

NoDriver == "NoDriver"

\* The fields and counters of the program before the constructor has run.
MainFresh ==
    /\ real_ip = None /\ current_proxy_index = 0 /\ retries = 0
    /\ num_calls = 0 /\ current_driver = NoDriver /\ current_proxy_ip = None
    /\ cookie_file = Absent
    /\ driver_alive = FALSE /\ orphans = 0 /\ faults = 0
    /\ page_marker = FALSE /\ on_captcha = FALSE
    /\ csv_rows = <<>>
    /\ ip_attempts = 0 /\ gd_attempts = 0 /\ gd_ret = None
    /\ wg_attempts = 0 /\ wg_ret = None /\ wg_result = None
    /\ auth_attempt = 0 /\ use_password = None /\ gp_n = 0 /\ gp_i = 0
    /\ gp_result = None /\ auth_result = None /\ run_result = <<"pending", None>>
    /\ sel_log = <<>> /\ leaks_seen = 0 /\ only_real_seen = TRUE
    /\ last_leak_signal = None /\ wg_rotated = FALSE
    /\ wg_new_session = FALSE /\ gp_calls = 0 /\ auth_calls = 0
    /\ auth_trace = <<>> /\ auth_checks = 0 /\ gp_rows = 0
    /\ last_record = NoRecord

MainIdle ==
    /\ proxy_list = <<>> /\ threshold = 1 /\ pc = "idle" /\ phase = "idle"
    /\ MainFresh

\* What one invocation of the wrapped function can do: return a value or
\* raise one of two kinds of exception.
RetryOutcomes == {"ok", "ExcA", "ExcB"}

RetryInit ==
    /\ r_max \in 0..MaxRetryParam
    /\ r_oracle \in [1..r_max -> RetryOutcomes]
    /\ r_attempts = 0 /\ r_calls = 0 /\ r_sleeps = 0
    /\ r_pc = "loop" /\ r_result = None
    /\ ParseIdle /\ CookiesIdle /\ MainIdle

\* One iteration of the wrapper's loop: the wrapped function is invoked and
\* either its value is returned or the except branch runs.
RetryCall ==
    /\ r_pc = "loop"
    /\ RetryLoopRuns(r_attempts, r_max)
    /\ r_calls' = r_calls + 1
    /\ LET out == r_oracle[r_calls + 1]
           exc == RetryOnException(r_attempts, r_max)
       IN  IF out = "ok"
           THEN /\ r_pc' = "returned"
                /\ r_result' = <<"ok", r_calls + 1>>
                /\ UNCHANGED <<r_attempts, r_sleeps>>
           ELSE /\ r_attempts' = exc.attempts
                /\ r_pc' = IF exc.raise THEN "raised" ELSE "loop"
                /\ r_result' = IF exc.raise THEN <<out, r_calls + 1>> ELSE None
                /\ r_sleeps' = IF exc.sleep THEN r_sleeps + 1 ELSE r_sleeps
    /\ UNCHANGED <<r_max, r_oracle, parseVars, cookieVars, mainVars>>

\* The loop condition is false: the wrapper falls off its end and returns None.
RetryFallThrough ==
    /\ r_pc = "loop"
    /\ ~RetryLoopRuns(r_attempts, r_max)
    /\ r_pc' = "returned"
    /\ r_result' = <<None, 0>>
    /\ UNCHANGED <<r_max, r_oracle, r_attempts, r_calls, r_sleeps,
                   parseVars, cookieVars, mainVars>>

RetryNext == RetryCall \/ RetryFallThrough

SpecRetry == RetryInit /\ [][RetryNext]_vars

RetryFinished == r_pc \in {"returned", "raised"}

\* C1: with max_attempts = 3, an operation that fails on attempts 1 and 2 and
\* succeeds on attempt 3 makes the wrapper return that third invocation's
\* result after exactly two sleeps; an operation that fails on all three
\* attempts is invoked exactly three times and the wrapper raises the third
\* invocation's failure.  While the wrapper is still looping it has slept
\* once per failed invocation and has invocations left.
C1_RetryPolicy ==
    r_max = RetryMaxAttempts =>
        /\ r_pc = "loop" =>
              /\ r_calls < RetryMaxAttempts
              /\ r_sleeps = r_calls
              /\ \A i \in 1..r_calls : r_oracle[i] # "ok"
        /\ (RetryFinished /\ r_oracle[1] # "ok" /\ r_oracle[2] # "ok"
              /\ r_oracle[3] = "ok") =>
              /\ r_pc = "returned"
              /\ r_result = <<"ok", 3>>
              /\ r_calls = 3
              /\ r_sleeps = 2
        /\ (RetryFinished /\ \A i \in 1..3 : r_oracle[i] # "ok") =>
              /\ r_pc = "raised"
              /\ r_calls = 3
              /\ r_result = <<r_oracle[3], 3>>
              /\ r_sleeps = 2

C1_Witness ==
    /\ r_max = RetryMaxAttempts
    /\ r_pc = "returned"
    /\ r_oracle = <<"ExcA", "ExcB", "ok">>
    /\ r_result = <<"ok", 3>>
    /\ r_sleeps = 2

\* The all-failing case of C1 is reached too.
C1_WitnessAllFail ==
    /\ r_max = RetryMaxAttempts
    /\ r_pc = "raised"
    /\ r_oracle = <<"ExcA", "ExcA", "ExcB">>
    /\ r_result = <<"ExcB", 3>>

(***************************************************************************)
(* Scraper._configure_proxy: src/scraper.py lines 124-153.  Strings are    *)
(* sequences of characters.                                                *)
(***************************************************************************)
RawAlphabet == {"a", "b", ":"}

RECURSIVE SplitFrom(_, _, _, _)
\* str.split(sep) scanning s from position i with the field cur being
\* collected and the fields acc already closed.
SplitFrom(s, sep, i, acc_cur) ==
    LET acc == acc_cur[1]
        cur == acc_cur[2]
    IN  IF i > Len(s) THEN Append(acc, cur)
        ELSE IF s[i] = sep THEN SplitFrom(s, sep, i + 1, <<Append(acc, cur), <<>>>>)
        ELSE SplitFrom(s, sep, i + 1, <<acc, Append(cur, s[i])>>)

\* proxy.split(":") (line 128): always at least one field.
Split(s, sep) == SplitFrom(s, sep, 1, <<<<>>, <<>>>>)

HttpScheme == <<"h", "t", "t", "p", ":", "/", "/">>
HttpsScheme == <<"h", "t", "t", "p", "s", ":", "/", "/">>

\* The userinfo@host:port authority the 4-field branch formats (lines 141-142).
AuthAuthority(f) == f[3] \o <<":">> \o f[4] \o <<"@">> \o f[1] \o <<":">> \o f[2]


\* The body of _configure_proxy after the cursor has advanced (lines 128-153):
\* the print at line 129 indexes field 1 before any arity check, so a
\* one-field string raises IndexError; four fields give the authenticated
\* form, any count other than two raises ValueError, two give host:port.
ConfigureProxy(raw) ==
    LET f == Split(raw, ":")
    IN  IF Len(f) < 2 THEN [raised |-> "IndexError"]
        ELSE IF Len(f) = 4
        THEN [raised |-> None,
              http  |-> HttpScheme \o AuthAuthority(f),
              https |-> HttpsScheme \o AuthAuthority(f),
              proxy_server |-> f[1] \o <<":">> \o f[2]]
        ELSE IF Len(f) # 2 THEN [raised |-> "ValueError"]
        ELSE [raised |-> None,
              http  |-> HttpScheme \o raw,
              https |-> HttpsScheme \o raw,
              proxy_server |-> f[1] \o <<":">> \o f[2]]

RECURSIVE StringsUpTo(_)
StringsUpTo(n) ==
    IF n = 0 THEN {<<>>}
    ELSE LET shorter == StringsUpTo(n - 1)
         IN  shorter \cup {Append(t, ch) : t \in shorter, ch \in RawAlphabet}

ParseInit ==
    /\ p_raw \in StringsUpTo(MaxRawLen)
    /\ p_pc = "start" /\ p_result = None
    /\ RetryIdle /\ CookiesIdle /\ MainIdle

\* _configure_proxy is applied to the raw string.
ParseConfigure ==
    /\ p_pc = "start"
    /\ p_result' = ConfigureProxy(p_raw)
    /\ p_pc' = "done"
    /\ UNCHANGED <<p_raw, retryVars, cookieVars, mainVars>>

ParseNext == ParseConfigure

SpecParse == ParseInit /\ [][ParseNext]_vars

\* The spec's ConfigError is the ValueError of line 146.
ConfigError == "ValueError"

NumFields(raw) == Len(Split(raw, ":"))

\* The host/port form of a 2-field string host:port.
HostPortForm(host, port) ==
    [raised |-> None,
     http  |-> HttpScheme \o host \o <<":">> \o port,
     https |-> HttpsScheme \o host \o <<":">> \o port,
     proxy_server |-> host \o <<":">> \o port]

\* The host/port/username/password form.
AuthForm(host, port, username, password) ==
    [raised |-> None,
     http  |-> HttpScheme \o username \o <<":">> \o password \o <<"@">>
                  \o host \o <<":">> \o port,
     https |-> HttpsScheme \o username \o <<":">> \o password \o <<"@">>
                  \o host \o <<":">> \o port,
     proxy_server |-> host \o <<":">> \o port]

\* C10: a raw proxy string with 2 colon-delimited fields parses to the
\* host/port form, one with 4 fields to the host/port/username/password form
\* (fields in that order), and one with 1 or 3 fields raises ConfigError.
C10_CredentialParsing ==
    p_pc = "done" =>
        LET f == Split(p_raw, ":")
        IN  /\ Len(f) = 2 => p_result = HostPortForm(f[1], f[2])
            /\ Len(f) = 4 => p_result = AuthForm(f[1], f[2], f[3], f[4])
            /\ Len(f) \in {1, 3} => p_result = [raised |-> ConfigError]

\* What the code does on every arity: C10 except that a 1-field string
\* raises IndexError (line 129) instead of ConfigError.
ParseByArity ==
    p_pc = "done" =>
        LET f == Split(p_raw, ":")
        IN  /\ Len(f) = 2 => p_result = HostPortForm(f[1], f[2])
            /\ Len(f) = 4 => p_result = AuthForm(f[1], f[2], f[3], f[4])
            /\ Len(f) = 1 => p_result = [raised |-> "IndexError"]
            /\ Len(f) \notin {1, 2, 4} => p_result = [raised |-> ConfigError]

\* Split agrees with joining the fields back with the separator.
RECURSIVE Join(_, _)
Join(fs, sep) ==
    IF Len(fs) = 1 THEN fs[1]
    ELSE fs[1] \o <<sep>> \o Join(Tail(fs), sep)

SplitJoinRoundTrip ==
    /\ Join(Split(p_raw, ":"), ":") = p_raw
    /\ \A i \in 1..NumFields(p_raw) :
          \A j \in 1..Len(Split(p_raw, ":")[i]) : Split(p_raw, ":")[i][j] # ":"

(***************************************************************************)
(* Cookie store: Scraper.save_cookies / Scraper.load_cookies,              *)
(* src/scraper.py lines 198-217.  A path is its sequence of components; a  *)
(* cookie is a dict (a function from attribute names to values).           *)
(***************************************************************************)
\* cookies_path of Scraper.__init__ (default, line 41), of UberScraper
\* (src/uber_scraper.py line 23) and a caller-supplied path with a directory.
DefaultCookiesPath == <<"cookies.pkl">>
UberCookiesPath == <<"uber_cookies.pkl">>
CookiesPaths == {DefaultCookiesPath, UberCookiesPath, <<"data", "cookies.pkl">>}

\* os.path.dirname(path): everything before the last component.
Dirname(path) == SubSeq(path, 1, Len(path) - 1)

\* os.makedirs(name, exist_ok=True) raises FileNotFoundError on the empty name.
MakedirsRaises(name) == name = <<>>


\* save_cookies raises before opening the file when makedirs does (line 199).
SaveCookiesRaises(path) == MakedirsRaises(Dirname(path))

\* The file after save_cookies: the pickled cookie list, or the file as it
\* was when makedirs raised (lines 199-201).
SaveCookiesFile(path, file, session) ==
    IF SaveCookiesRaises(path) THEN file ELSE session

\* "del cookie['expiry']" when the key is present (lines 208-209).
StripExpiry(cookie) ==
    [k \in DOMAIN cookie \ {"expiry"} |-> cookie[k]]

\* The add_cookie calls load_cookies makes on a file (lines 204-217): none
\* when the file is missing; otherwise one per cookie, expiry stripped, up to
\* the call that raises (fail_at, 0 when none does).
LoadCookiesApplied(file, fail_at) ==
    IF file = Absent THEN <<>>
    ELSE LET n == IF fail_at \in 1..Len(file) THEN fail_at - 1 ELSE Len(file)
         IN  [i \in 1..n |-> StripExpiry(file[i])]

\* refresh() is reached only when the file exists and no add_cookie raised.
LoadCookiesRefreshes(file, fail_at) ==
    file # Absent /\ fail_at \notin 1..Len(file)

CookieNames == {"sid", "csrf"}
CookieChoices ==
    {[name |-> n, value |-> "v"] : n \in CookieNames}
    \cup {[name |-> n, value |-> "v", expiry |-> 1] : n \in CookieNames}

RECURSIVE CookieListsUpTo(_)
CookieListsUpTo(n) ==
    IF n = 0 THEN {<<>>}
    ELSE LET shorter == CookieListsUpTo(n - 1)
         IN  shorter \cup {Append(l, c) : l \in shorter, c \in CookieChoices}

\* A browser holds one cookie per name.
DistinctNames(l) == \A i, j \in 1..Len(l) : i # j => l[i].name # l[j].name

CookieLists == {l \in CookieListsUpTo(MaxCookies) : DistinctNames(l)}

CookiesInit ==
    /\ c_path \in CookiesPaths
    /\ c_session \in CookieLists
    /\ c_file \in {Absent, <<[name |-> "old", value |-> "v", expiry |-> 1]>>}
    /\ c_add_fail_at \in 0..MaxCookies
    /\ c_applied = <<>> /\ c_refreshed = FALSE /\ c_save_raised = FALSE
    /\ c_pc = "save"
    /\ RetryIdle /\ ParseIdle /\ MainIdle

\* save_cookies()
CookiesSave ==
    /\ c_pc = "save"
    /\ c_file' = SaveCookiesFile(c_path, c_file, c_session)
    /\ c_save_raised' = SaveCookiesRaises(c_path)
    /\ c_pc' = "load"
    /\ UNCHANGED <<c_path, c_session, c_add_fail_at, c_applied, c_refreshed,
                   retryVars, parseVars, mainVars>>

\* load_cookies(): every exception is swallowed (lines 212-217).
CookiesLoad ==
    /\ c_pc = "load"
    /\ c_applied' = LoadCookiesApplied(c_file, c_add_fail_at)
    /\ c_refreshed' = LoadCookiesRefreshes(c_file, c_add_fail_at)
    /\ c_pc' = "done"
    /\ UNCHANGED <<c_path, c_session, c_file, c_add_fail_at, c_save_raised,
                   retryVars, parseVars, mainVars>>

CookiesNext == CookiesSave \/ CookiesLoad

SpecCookies == CookiesInit /\ [][CookiesNext]_vars

\* C9: for every cookie set C held by the session, save followed by load
\* applies to the session exactly the cookies of C with the expiry attribute
\* removed from every cookie (none missing, none added, none carrying an
\* expiry), after which the page is refreshed.  (The add_cookie calls are
\* taken to succeed.)
C9_CookieRoundTrip ==
    (c_pc = "done" /\ c_add_fail_at = 0) =>
        /\ ~c_save_raised
        /\ Len(c_applied) = Len(c_session)
        /\ \A i \in 1..Len(c_session) :
              /\ "expiry" \notin DOMAIN c_applied[i]
              /\ DOMAIN c_applied[i] = DOMAIN c_session[i] \ {"expiry"}
              /\ \A k \in DOMAIN c_applied[i] : c_applied[i][k] = c_session[i][k]
        /\ c_refreshed

\* What the code does: the round trip of C9 holds exactly for a path with a
\* directory component; for a bare file name save_cookies raises, the file is
\* left as it was, and load_cookies replays whatever was there before.
CookieRoundTripByPath ==
    (c_pc = "done" /\ c_add_fail_at = 0) =>
        IF Dirname(c_path) # <<>>
        THEN /\ ~c_save_raised
             /\ c_applied = [i \in 1..Len(c_session) |-> StripExpiry(c_session[i])]
             /\ c_refreshed
        ELSE /\ c_save_raised
             /\ \A i \in 1..Len(c_applied) : c_applied[i].name = "old"

(***************************************************************************)
(* Scraper: construction, session factory and navigator,                   *)
(* src/scraper.py lines 36-196.                                            *)
(***************************************************************************)
HostChars == <<"a", "b", "c", "d">>

\* The i-th well-formed pool entry: host:port for odd i, and
\* host:port:username:password for even i, with a host of its own.
RawProxy(i) ==
    IF i % 2 = 1 THEN <<HostChars[i], ":", "p">>
    ELSE <<HostChars[i], ":", "p", ":", "u", ":", "w">>

\* Entries with one and with three fields.
MalformedProxies == {<<"h">>, <<"h", ":", "p", ":", "u">>}

WellFormedPool(k) == [i \in 1..k |-> RawProxy(i)]

\* The proxy_list arguments: the empty list, the well-formed pools, and the
\* largest pool with its last entry malformed.
ProxyPools ==
    {WellFormedPool(k) : k \in 0..MaxPool}
    \cup {[WellFormedPool(MaxPool) EXCEPT ![MaxPool] = m] : m \in MalformedProxies}

num_proxies == Len(proxy_list)

\* The address requests and an unproxied browser see.
RealAddress == "X"
\* The address a working proxy shows.
ProxyAddress == "P"
UnknownIp == "Unknown"

MainInit ==
    /\ proxy_list \in ProxyPools
    /\ threshold \in 1..MaxThreshold
    /\ pc = "init_real_ip" /\ phase = "ctor"
    /\ MainFresh
    /\ RetryIdle /\ ParseIdle /\ CookiesIdle

DriverAlive == current_driver # NoDriver /\ driver_alive

\* The environment may inject one more failure.
CanFail == faults < MaxFaults

IpOutcomes == {"ok", "RequestException", "OtherException"}

\* The body of _get_real_ip (lines 57-63): a RequestException is caught in
\* the body and turned into "Unknown"; anything else leaves the body.
GetRealIpBody(outcome) ==
    IF outcome = "ok" THEN [raised |-> None, value |-> RealAddress]
    ELSE IF outcome = "RequestException"
    THEN [raised |-> None, value |-> UnknownIp]
    ELSE [raised |-> outcome, value |-> None]

\* __init__ (lines 44-53) up to self.real_ip: one invocation of _get_real_ip
\* under its retry wrapper.  A raise out of the wrapper ends the program.
GetRealIp ==
    /\ pc = "init_real_ip"
    /\ RetryLoopRuns(ip_attempts, RetryMaxAttempts)
    /\ \E outcome \in IF CanFail THEN IpOutcomes ELSE {"ok"} :
          LET b == GetRealIpBody(outcome)
              r == RetryOnException(ip_attempts, RetryMaxAttempts)
          IN  /\ faults' = IF outcome = "ok" THEN faults ELSE faults + 1
              /\ IF b.raised = None
                 THEN /\ real_ip' = b.value
                      /\ pc' = "gd_body" /\ gd_ret' = "init" /\ gd_attempts' = 0
                      /\ ip_attempts' = 0
                      /\ UNCHANGED <<phase, run_result>>
                 ELSE /\ ip_attempts' = r.attempts
                      /\ pc' = IF r.raise THEN "done" ELSE pc
                      /\ phase' = IF r.raise THEN "done" ELSE phase
                      /\ run_result' = IF r.raise THEN <<"raised", b.raised>>
                                       ELSE run_result
                      /\ UNCHANGED <<real_ip, gd_ret, gd_attempts>>
    /\ UNCHANGED <<proxy_list, threshold, current_proxy_index, retries,
                   num_calls, current_driver, current_proxy_ip, cookie_file,
                   driver_alive, orphans, page_marker, on_captcha, csv_rows,
                   wg_attempts, wg_ret, wg_result, auth_attempt,
                   use_password, gp_n, gp_i, gp_result, auth_result,
                   histVars, retryVars, parseVars, cookieVars>>

\* A cursor that runs off the end of the pool instead of wrapping.
NextProxyIndex_NoWrap(index, n) == (index + 1) % (n + 1)

\* Line 126: the cursor advances by one modulo the pool size.
NextProxyIndex(index, n) == (index + 1) % n

\* A comparison that gives up one detection early.
LeakSignal_Strict(count, n) ==
    IF count < n THEN "LeakDetected" ELSE "AllProxiesExhausted"

\* Lines 167-171: what _check_proxy_ip raises once self.retries holds count:
\* WebDriverException("IP leak detected") or Exception("All proxies are down").
LeakSignal(count, n) ==
    IF count <= n THEN "LeakDetected" ELSE "AllProxiesExhausted"

\* _check_proxy_ip (lines 155-171) when the proxied browser shows observed:
\* a failed lookup stores real_ip as the proxy ip (line 162).
CheckProxyIp(observed) ==
    LET ip == IF observed = "LookupFailed" THEN real_ip ELSE observed
        leaked == ip = real_ip
        count == IF leaked THEN retries + 1 ELSE retries
    IN  [proxy_ip |-> ip,
         leaked   |-> leaked,
         retries  |-> count,
         raised   |-> IF leaked THEN LeakSignal(count, num_proxies) ELSE None]

\* The body of get_driver after the quit of lines 88-89 (lines 91-122), given
\* whether Chrome starts and what the proxied browser shows.  created tells
\* whether a browser session was instantiated, checked whether
\* _check_proxy_ip ran.
GetDriverBody(chrome_ok, observed) ==
    LET use == num_proxies > 0
        selected == IF use THEN proxy_list[current_proxy_index + 1] ELSE None
        index == IF use THEN NextProxyIndex(current_proxy_index, num_proxies)
                 ELSE current_proxy_index
        cfg == IF use THEN ConfigureProxy(selected) ELSE [raised |-> None]
        chk == CheckProxyIp(observed)
        base == [selected |-> selected, index |-> index, created |-> FALSE,
                 checked |-> FALSE, leaked |-> FALSE, retries |-> retries,
                 proxy_ip |-> current_proxy_ip, raised |-> None]
    IN  IF cfg.raised # None THEN [base EXCEPT !.raised = cfg.raised]
        ELSE IF ~chrome_ok THEN [base EXCEPT !.raised = "WebDriverException"]
        ELSE IF ~use THEN [base EXCEPT !.created = TRUE]
        ELSE [base EXCEPT !.created = TRUE, !.checked = TRUE,
                          !.leaked = chk.leaked, !.retries = chk.retries,
                          !.proxy_ip = chk.proxy_ip, !.raised = chk.raised]

\* What the environment can answer to one invocation of get_driver: whether
\* Chrome starts and, when a proxy is in use, the address the browser shows.
\* It is not asked when the selected entry does not parse.
GetDriverEnv ==
    LET asked == num_proxies = 0
                 \/ ConfigureProxy(proxy_list[current_proxy_index + 1]).raised = None
    IN  {<<TRUE, ProxyAddress>>}
        \cup (IF asked /\ CanFail THEN {<<FALSE, ProxyAddress>>} ELSE {})
        \cup (IF asked /\ CanFail /\ num_proxies > 0
              THEN {<<TRUE, RealAddress>>, <<TRUE, "LookupFailed">>} ELSE {})

AuthMaxAttempts == 3


\* authenticate's except branch (src/uber_scraper.py lines 48-51): the last
\* attempt raises, any earlier one lets the for loop go on.
AuthOnException(attempt) ==
    [raise |-> attempt = AuthMaxAttempts - 1, attempt |-> attempt + 1]

\* An exception raised inside the try block of authenticate at step.
AuthAttemptFailed(step) ==
    LET e == AuthOnException(auth_attempt)
    IN  /\ auth_trace' = Append(auth_trace, <<step, "raised">>)
        /\ IF e.raise
           THEN /\ pc' = "auth_done"
                /\ auth_result' = "AuthenticationFailed"
                /\ UNCHANGED auth_attempt
           ELSE IF e.attempt < AuthMaxAttempts
           THEN /\ pc' = "auth_check"
                /\ auth_attempt' = e.attempt
                /\ UNCHANGED auth_result
           ELSE \* range(max_attempts) is exhausted: authenticate ends
                /\ pc' = "auth_done"
                /\ auth_result' = "returned"
                /\ UNCHANGED auth_attempt

\* web_get's wrapper returns val to the caller of web_get.
WebGetReturned(val) ==
    /\ wg_result' = val
    /\ wg_rotated' = FALSE /\ wg_new_session' = FALSE
    /\ wg_attempts' = 0
    /\ UNCHANGED <<auth_result, gp_result>>
    /\ IF wg_ret = "gp"
       THEN pc' = "gp_check" /\ UNCHANGED <<auth_attempt, auth_trace>>
       ELSE IF wg_ret = "auth_login"
       THEN pc' = "auth_check" /\ auth_attempt' = 0 /\ UNCHANGED auth_trace
       ELSE /\ pc' = "auth_save"
            /\ auth_trace' = Append(auth_trace,
                                <<"navigate", IF val THEN "ok" ELSE "failed">>)
            /\ UNCHANGED auth_attempt

\* The body of web_get raised kind: its retry wrapper re-invokes the body or
\* re-raises to the caller of web_get (get_price line 58 and authenticate
\* line 29 are outside any try; authenticate line 45 is inside its try).
WebGetBodyRaised(kind) ==
    LET r == RetryOnException(wg_attempts, RetryMaxAttempts)
    IN  /\ wg_attempts' = IF r.raise THEN 0 ELSE r.attempts
        /\ wg_rotated' = FALSE /\ wg_new_session' = FALSE
        /\ UNCHANGED wg_result
        /\ IF ~r.raise
           THEN /\ pc' = "wg_enter"
                /\ UNCHANGED <<auth_attempt, auth_result, auth_trace, gp_result>>
           ELSE IF wg_ret = "gp"
           THEN /\ pc' = "gp_done" /\ gp_result' = kind
                /\ UNCHANGED <<auth_attempt, auth_result, auth_trace>>
           ELSE IF wg_ret = "auth_login"
           THEN /\ pc' = "auth_done" /\ auth_result' = kind
                /\ UNCHANGED <<auth_attempt, auth_trace, gp_result>>
           ELSE AuthAttemptFailed("navigate") /\ UNCHANGED gp_result

\* One invocation of the body of get_driver under its retry wrapper
\* (lines 86-122): the current session, if any, is quit; a proxy is selected
\* and parsed; Chrome is started; the proxy is verified.  The wrapper then
\* returns the driver to the caller (which assigns self.current_driver,
\* lines 53 and 178), re-invokes the body, or re-raises.
GetDriverAttempt ==
    /\ pc = "gd_body"
    /\ RetryLoopRuns(gd_attempts, RetryMaxAttempts)
    /\ \E env \in GetDriverEnv :
          LET b == GetDriverBody(env[1], env[2])
              r == RetryOnException(gd_attempts, RetryMaxAttempts)
              ok == b.raised = None
          IN  /\ faults' = IF env = <<TRUE, ProxyAddress>> THEN faults
                           ELSE faults + 1
              /\ current_proxy_index' = b.index
              /\ retries' = b.retries
              /\ current_proxy_ip' = b.proxy_ip
              /\ current_driver' = IF ok THEN "session" ELSE current_driver
              /\ driver_alive' = ok
              /\ orphans' = IF b.created /\ ~ok THEN orphans + 1 ELSE orphans
              /\ page_marker' = IF ok THEN FALSE ELSE page_marker
              /\ on_captcha' = IF ok THEN FALSE ELSE on_captcha
              /\ sel_log' = IF b.selected # None /\ Len(sel_log) < MaxSelLog
                            THEN Append(sel_log, b.selected) ELSE sel_log
              /\ leaks_seen' = IF b.leaked THEN leaks_seen + 1 ELSE leaks_seen
              /\ only_real_seen' = (only_real_seen /\ (b.checked =>
                        env[2] = RealAddress /\ real_ip = RealAddress))
              /\ last_leak_signal' = IF b.leaked THEN b.raised
                                     ELSE last_leak_signal
              /\ gd_attempts' = IF ok \/ r.raise THEN 0 ELSE r.attempts
              /\ gd_ret' = IF ok \/ r.raise THEN None ELSE gd_ret
              /\ IF gd_ret = "init"
                 THEN /\ pc' = IF ok THEN "ready"
                               ELSE IF r.raise THEN "done" ELSE pc
                      /\ phase' = IF ~ok /\ r.raise THEN "done" ELSE phase
                      /\ run_result' = IF ~ok /\ r.raise
                                       THEN <<"raised", b.raised>>
                                       ELSE run_result
                      /\ UNCHANGED <<wg_attempts, wg_result, auth_attempt,
                                     auth_result, auth_trace, gp_result,
                                     wg_rotated, wg_new_session>>
                 ELSE /\ UNCHANGED <<phase, run_result>>
                      /\ IF ok
                         THEN /\ pc' = "wg_nav"
                              /\ wg_new_session' = TRUE
                              /\ UNCHANGED <<wg_attempts, wg_result,
                                             auth_attempt, auth_result,
                                             auth_trace, gp_result, wg_rotated>>
                         ELSE IF ~r.raise
                         THEN UNCHANGED <<pc, wg_attempts, wg_result,
                                          auth_attempt, auth_result,
                                          auth_trace, gp_result, wg_rotated,
                                          wg_new_session>>
                         ELSE WebGetBodyRaised(b.raised)
    /\ UNCHANGED <<proxy_list, threshold, real_ip, num_calls, cookie_file,
                   csv_rows, ip_attempts, wg_ret, use_password,
                   gp_n, gp_i, gp_calls, auth_calls, auth_checks, gp_rows,
                   last_record, retryVars, parseVars, cookieVars>>

\* A rotation that is due on the call after each multiple of the threshold.
RotationDue_OffByOne(calls, t) == calls % t = 1 % t

\* Line 177: rotation is due when the incremented counter divides evenly.
RotationDue(calls, t) == calls % t = 0

\* web_get's wrapper invokes the body (lines 175-178): the call counter is
\* incremented and, when rotation is due, get_driver is called.
WebGetEnter ==
    /\ pc = "wg_enter"
    /\ RetryLoopRuns(wg_attempts, RetryMaxAttempts)
    /\ num_calls' = num_calls + 1
    /\ wg_rotated' = RotationDue(num_calls + 1, threshold)
    /\ wg_new_session' = FALSE
    /\ IF RotationDue(num_calls + 1, threshold)
       THEN pc' = "gd_body" /\ gd_ret' = "wg" /\ gd_attempts' = 0
       ELSE pc' = "wg_nav" /\ UNCHANGED <<gd_ret, gd_attempts>>
    /\ UNCHANGED <<proxy_list, threshold, real_ip, current_proxy_index,
                   retries, current_driver, current_proxy_ip, cookie_file,
                   browserVars, ip_attempts, wg_attempts, wg_ret, wg_result,
                   phase, auth_attempt, use_password, gp_n, gp_i, gp_result,
                   auth_result, run_result, sel_log, leaks_seen, only_real_seen,
                   last_leak_signal, gp_calls, auth_calls, auth_trace,
                   auth_checks, gp_rows, last_record,
                   retryVars, parseVars, cookieVars>>

NavFailures ==
    {"Captcha", "TimeoutException", "WebDriverException", "OtherException"}

\* What current_driver.get(url) can do: anything on a live session; on a
\* session that was quit it raises, as a WebDriverException or as another
\* exception depending on the driver build.
NavOutcomesNow ==
    IF ~DriverAlive THEN {"WebDriverException", "OtherException"}
    ELSE {"ok"} \cup (IF CanFail THEN NavFailures ELSE {})

\* Lines 180-196: the page is fetched, load_cookies runs (it swallows every
\* exception), the CAPTCHA url raises a WebDriverException inside the try;
\* TimeoutException and WebDriverException become False, anything else
\* leaves the body.
WebGetBody(outcome) ==
    IF outcome = "ok" THEN [raised |-> None, value |-> TRUE]
    ELSE IF outcome \in {"Captcha", "TimeoutException", "WebDriverException"}
    THEN [raised |-> None, value |-> FALSE]
    ELSE [raised |-> outcome, value |-> None]

\* The rest of the body of web_get (lines 180-196) and its wrapper's
\* handling of the result.  A page that loads may or may not show the
\* logged-in marker; a CAPTCHA page does not.
WebGetNavigate ==
    /\ pc = "wg_nav"
    /\ \E outcome \in NavOutcomesNow :
       \E marker \in IF outcome = "ok" THEN BOOLEAN ELSE {FALSE} :
          LET b == WebGetBody(outcome)
          IN  /\ faults' = IF DriverAlive /\ outcome # "ok" THEN faults + 1
                           ELSE faults
              /\ page_marker' = IF outcome \in {"ok", "Captcha"} THEN marker
                                ELSE page_marker
              /\ on_captcha' = IF outcome = "Captcha" THEN TRUE
                               ELSE IF outcome = "ok" THEN FALSE
                               ELSE on_captcha
              /\ IF b.raised = None THEN WebGetReturned(b.value)
                 ELSE WebGetBodyRaised(b.raised)
    /\ UNCHANGED <<scraperVars, driver_alive, orphans, csv_rows, ip_attempts,
                   gd_attempts, gd_ret, wg_ret, phase, use_password, gp_n,
                   gp_i, run_result, sel_log, leaks_seen, only_real_seen,
                   last_leak_signal, gp_calls, auth_calls, auth_checks,
                   gp_rows, last_record, retryVars, parseVars, cookieVars>>

(***************************************************************************)
(* UberScraper: run, get_price and authenticate, src/uber_scraper.py.      *)
(***************************************************************************)
\* What the flows of UberScraper never assign: the fields and the call
\* frames of the Scraper base class.
sessionFrame ==
    <<proxy_list, threshold, real_ip, current_proxy_index, retries, num_calls,
      current_driver, current_proxy_ip, driver_alive, orphans, on_captcha,
      ip_attempts, gd_attempts, gd_ret, sel_log, leaks_seen, only_real_seen,
      last_leak_signal, wg_rotated, wg_new_session,
      retryVars, parseVars, cookieVars>>

\* The frame of get_price and what it persists.
gpLocals == <<gp_n, gp_i, gp_result, gp_rows, last_record, csv_rows>>
\* The frame of authenticate.
authLocals == <<auth_attempt, use_password, auth_result, auth_trace, auth_checks>>
\* The frame of run.
runLocals == <<phase, run_result, gp_calls, auth_calls>>
\* The frame of web_get.
wgLocals == <<wg_attempts, wg_ret, wg_result>>

\* What an interaction with an element of the page can do: it succeeds or
\* raises; on a session that was quit it raises.
StepOutcomes ==
    IF ~DriverAlive THEN {FALSE}
    ELSE IF CanFail THEN BOOLEAN ELSE {TRUE}

StepCost(ok) == IF DriverAlive /\ ~ok THEN 1 ELSE 0

\* What the wait of _check_if_logged_in can do: it answers (the marker is
\* found, or the wait times out) or the driver raises something else, as it
\* does on a session that was quit.
CheckOutcomes ==
    IF ~DriverAlive THEN {"raised"}
    ELSE {"answered"} \cup (IF CanFail THEN {"raised"} ELSE {})

\* A check that answers True whatever the page shows.
CheckIfLoggedIn_AlwaysTrue(outcome) ==
    IF outcome = "raised" THEN [raised |-> "WebDriverException", value |-> None]
    ELSE [raised |-> None, value |-> TRUE]

\* _check_if_logged_in (lines 76-83): True when the marker is there, False
\* on the TimeoutException of the wait; any other exception leaves the
\* method.
CheckIfLoggedIn(outcome) ==
    IF outcome = "raised" THEN [raised |-> "WebDriverException", value |-> None]
    ELSE [raised |-> None, value |-> page_marker]

\* save_cookies() as UberScraper calls it (src/scraper.py lines 198-201 with
\* the cookies_path of src/uber_scraper.py line 23).
SaveCookies ==
    IF SaveCookiesRaises(UberCookiesPath) THEN [raised |-> "FileNotFoundError"]
    ELSE IF ~DriverAlive THEN [raised |-> "WebDriverException"]
    ELSE [raised |-> None]

\* A get_price that goes on without the marker.
NotLoggedInRaises_Never(logged_in) == FALSE

\* Lines 60-61: get_price raises "Not logged in" when the check says False.
NotLoggedInRaises(logged_in) == ~logged_in

\* run calls get_price (lines 242 and 251): get_price builds the link and
\* calls web_get (lines 56-58).
StartGetPrice(ph) ==
    /\ phase' = ph
    /\ gp_calls' = gp_calls + 1
    /\ gp_n' = 0 /\ gp_i' = 0 /\ gp_rows' = 0
    /\ gp_result' = None /\ last_record' = NoRecord
    /\ pc' = "wg_enter" /\ wg_ret' = "gp" /\ wg_attempts' = 0
    /\ wg_result' = None

\* run is entered once the scraper is constructed (lines 265-267).
RunStart ==
    /\ pc = "ready"
    /\ StartGetPrice("gp1")
    /\ UNCHANGED <<sessionFrame, authLocals, run_result, auth_calls,
                   cookie_file, faults, page_marker, csv_rows>>

\* Lines 60-61.
GpCheckLoggedIn ==
    /\ pc = "gp_check"
    /\ \E outcome \in CheckOutcomes :
          LET c == CheckIfLoggedIn(outcome)
          IN  /\ faults' = faults + StepCost(outcome # "raised")
              /\ IF c.raised # None
                 THEN pc' = "gp_done" /\ gp_result' = c.raised
                 ELSE IF NotLoggedInRaises(c.value)
                 THEN pc' = "gp_done" /\ gp_result' = "NotAuthenticated"
                 ELSE pc' = "gp_types" /\ UNCHANGED gp_result
    /\ wg_result' = None
    /\ UNCHANGED <<sessionFrame, authLocals, runLocals, wg_attempts, wg_ret,
                   gp_n, gp_i, gp_rows, last_record, csv_rows,
                   cookie_file, page_marker>>

\* Lines 64-66: _get_ride_types raises its TimeoutException (n = -1) or
\* returns the list of n entries; an empty list raises.
GpGetRideTypes ==
    /\ pc = "gp_types"
    /\ \E n \in (1..MaxRides) \cup (IF CanFail THEN {-1, 0} ELSE {}) :
          /\ faults' = IF n < 1 THEN faults + 1 ELSE faults
          /\ IF n = -1
             THEN pc' = "gp_done" /\ gp_result' = "TimeoutException"
                  /\ UNCHANGED gp_n
             ELSE IF n = 0
             THEN pc' = "gp_done" /\ gp_result' = "NoRideTypes"
                  /\ UNCHANGED gp_n
             ELSE pc' = "gp_loop" /\ gp_n' = n /\ UNCHANGED gp_result
    /\ UNCHANGED <<sessionFrame, authLocals, runLocals, wgLocals,
                   gp_i, gp_rows, last_record, csv_rows,
                   cookie_file, page_marker>>

Sentinel == "N/A"

\* The keys of selectors (lines 148-155).
SelectorFields ==
    {"ride_name", "ride_estimate", "base_fare", "minimum_fare",
     "plus_per_minute", "plus_per_kilometer"}

\* The keys of ride_data when _extract_ride_data returns.
RideFields == SelectorFields \cup {"wait_charge"}

\* Which selectors time out: none, the first one, or all.
FieldFailures == {{}, {"ride_name"}, SelectorFields}

\* _get_wait_charge (lines 179-186): the text matches the pattern, does not
\* match it, or the lookup raises.
WaitOutcomes == {"match", "nomatch", "raised"}

WaitCharge(wait) == IF wait = "match" THEN "EGP" ELSE Sentinel


\* _extract_ride_data after the click (lines 157-166).
ExtractRideData(failed, wait) ==
    [k \in RideFields |->
        IF k = "wait_charge" THEN WaitCharge(wait)
        ELSE IF k \in failed THEN Sentinel ELSE "text"]

\* What one entry can do: the click succeeds or raises and, after a click,
\* selectors and the wait charge resolve or fail.
ExtractEnv ==
    {<<ok, {}, "match">> : ok \in StepOutcomes}
    \cup (IF DriverAlive /\ CanFail
          THEN {<<TRUE, f, w>> : f \in FieldFailures, w \in WaitOutcomes}
          ELSE {})

\* _save_ride_data (lines 188-220) builds the file name and the row from
\* the keys of the record, and raises when one is missing.
SaveRideData(rec) ==
    [raised |-> IF RideFields \subseteq DOMAIN rec THEN None ELSE "KeyError"]

\* One iteration of the loop of lines 67-69: the entry is clicked, its
\* record extracted and handed to _save_ride_data.
GpExtractAndSave ==
    /\ pc = "gp_loop"
    /\ gp_i < gp_n
    /\ \E env \in ExtractEnv :
          LET rec == ExtractRideData(env[2], env[3])
              nominal == env[2] = {} /\ env[3] = "match"
          IN  /\ faults' = IF ~env[1] THEN faults + StepCost(FALSE)
                           ELSE IF nominal THEN faults ELSE faults + 1
              /\ IF ~env[1]
                 THEN /\ pc' = "gp_done" /\ gp_result' = "ClickFailed"
                      /\ last_record' = NoRecord
                      /\ UNCHANGED <<gp_i, gp_rows, csv_rows>>
                 ELSE IF SaveRideData(rec).raised # None
                 THEN /\ pc' = "gp_done"
                      /\ gp_result' = SaveRideData(rec).raised
                      /\ last_record' = rec
                      /\ UNCHANGED <<gp_i, gp_rows, csv_rows>>
                 ELSE /\ last_record' = rec
                      /\ csv_rows' = Append(csv_rows, gp_i + 1)
                      /\ gp_rows' = gp_rows + 1
                      /\ gp_i' = gp_i + 1
                      /\ pc' = IF gp_i + 1 = gp_n THEN "gp_save" ELSE pc
                      /\ UNCHANGED gp_result
    /\ UNCHANGED <<sessionFrame, authLocals, runLocals, wgLocals, gp_n,
                   cookie_file, page_marker>>

\* Line 71 and the except of lines 72-74, which re-raises.
GpSaveCookies ==
    /\ pc = "gp_save"
    /\ LET s == SaveCookies
       IN  /\ gp_result' = IF s.raised # None THEN s.raised ELSE "returned"
           /\ cookie_file' = IF s.raised = None THEN "saved" ELSE cookie_file
    /\ pc' = "gp_done"
    /\ last_record' = NoRecord
    /\ UNCHANGED <<sessionFrame, authLocals, runLocals, wgLocals, gp_n, gp_i,
                   gp_rows, csv_rows, faults, page_marker>>

\* A run that compensates after every failed extraction.
RunCompensates_Always(ph) == TRUE

\* Lines 241-248: the except clause guards the first get_price only.
RunCompensates(ph) == ph = "gp1"

\* get_price has returned or raised to run (lines 241-256): a failure of the
\* first call enters authenticate, which starts with web_get(LOGIN_URL)
\* (lines 28-29); a failure of the second call leaves run.
RunAfterGetPrice ==
    /\ pc = "gp_done"
    /\ gp_n' = 0 /\ gp_i' = 0 /\ gp_rows' = 0 /\ gp_result' = None
    /\ IF gp_result = "returned"
       THEN /\ pc' = "done" /\ phase' = "done" /\ run_result' = <<"returned", None>>
            /\ UNCHANGED <<auth_calls, wgLocals>>
       ELSE IF RunCompensates(phase)
       THEN /\ phase' = "auth"
            /\ auth_calls' = auth_calls + 1
            /\ pc' = "wg_enter" /\ wg_ret' = "auth_login" /\ wg_attempts' = 0
            /\ wg_result' = None
            /\ UNCHANGED run_result
       ELSE /\ pc' = "done" /\ phase' = "done"
            /\ run_result' = <<"raised", gp_result>>
            /\ UNCHANGED <<auth_calls, wgLocals>>
    /\ UNCHANGED <<sessionFrame, authLocals, gp_calls, last_record, csv_rows,
                   cookie_file, faults, page_marker>>

\* authenticate has returned or raised to run (lines 250-251).
RunAfterAuthenticate ==
    /\ pc = "auth_done"
    /\ auth_attempt' = 0 /\ auth_trace' = <<>> /\ auth_checks' = 0
    /\ auth_result' = None /\ use_password' = None
    /\ IF auth_result = "returned"
       THEN StartGetPrice("gp2") /\ UNCHANGED run_result
       ELSE /\ pc' = "done" /\ phase' = "done"
            /\ run_result' = <<"raised", auth_result>>
            /\ UNCHANGED <<gp_calls, gp_n, gp_i, gp_rows, gp_result,
                           last_record, wgLocals>>
    /\ UNCHANGED <<sessionFrame, auth_calls, csv_rows, cookie_file, faults,
                   page_marker>>

\* The top of an iteration of the loop of authenticate (lines 32-34), which
\* is outside the try block.
AuthCheckLoggedIn ==
    /\ pc = "auth_check"
    /\ auth_checks' = auth_checks + 1
    /\ auth_trace' = <<>>
    /\ use_password' = None
    /\ wg_result' = None
    /\ \E outcome \in CheckOutcomes :
          LET c == CheckIfLoggedIn(outcome)
          IN  /\ faults' = faults + StepCost(outcome # "raised")
              /\ IF c.raised # None
                 THEN pc' = "auth_done" /\ auth_result' = c.raised
                 ELSE IF c.value
                 THEN pc' = "auth_done" /\ auth_result' = "returned"
                 ELSE pc' = "auth_phone" /\ UNCHANGED auth_result
    /\ UNCHANGED <<sessionFrame, gpLocals, runLocals, wg_attempts, wg_ret,
                   auth_attempt, cookie_file, page_marker>>

\* Line 36, _enter_phone_number (lines 85-95).
AuthEnterPhone ==
    /\ pc = "auth_phone"
    /\ \E ok \in StepOutcomes :
          /\ faults' = faults + StepCost(ok)
          /\ IF ok
             THEN /\ pc' = "auth_challenge"
                  /\ auth_trace' = Append(auth_trace, <<"phone", "ok">>)
                  /\ UNCHANGED <<auth_attempt, auth_result>>
             ELSE AuthAttemptFailed("phone")
    /\ UNCHANGED <<sessionFrame, gpLocals, runLocals, wgLocals, use_password,
                   auth_checks, cookie_file, page_marker>>

\* _check_password_option (lines 97-107): the password option is there and
\* is clicked, the wait times out, or the click raises.
ChallengeOutcomes ==
    IF ~DriverAlive THEN {"raised"}
    ELSE {"present", "timeout"} \cup (IF CanFail THEN {"raised"} ELSE {})

\* Lines 37-39.
AuthCheckPasswordOption ==
    /\ pc = "auth_challenge"
    /\ \E outcome \in ChallengeOutcomes :
          /\ faults' = faults + StepCost(outcome # "raised")
          /\ IF outcome = "raised"
             THEN AuthAttemptFailed("challenge") /\ UNCHANGED use_password
             ELSE /\ use_password' = (outcome = "present")
                  /\ pc' = IF outcome = "present" THEN "auth_password"
                           ELSE "auth_otp"
                  /\ UNCHANGED <<auth_attempt, auth_result, auth_trace>>
    /\ UNCHANGED <<sessionFrame, gpLocals, runLocals, wgLocals, auth_checks,
                   cookie_file, page_marker>>

\* Line 40, _enter_password (lines 109-118).
AuthEnterPassword ==
    /\ pc = "auth_password"
    /\ \E ok \in StepOutcomes :
          /\ faults' = faults + StepCost(ok)
          /\ IF ok
             THEN /\ pc' = "auth_submit"
                  /\ auth_trace' = Append(auth_trace, <<"password", "ok">>)
                  /\ UNCHANGED <<auth_attempt, auth_result>>
             ELSE AuthAttemptFailed("password")
    /\ UNCHANGED <<sessionFrame, gpLocals, runLocals, wgLocals, use_password,
                   auth_checks, cookie_file, page_marker>>

\* Line 42, _handle_otp (lines 120-130): the code is typed and the password
\* entered after it, or one of the two waits raises.
AuthHandleOtp ==
    /\ pc = "auth_otp"
    /\ \E ok \in StepOutcomes :
          /\ faults' = faults + StepCost(ok)
          /\ IF ok
             THEN /\ pc' = "auth_submit"
                  /\ auth_trace' = auth_trace \o <<<<"otp", "ok">>,
                                                   <<"password", "ok">>>>
                  /\ UNCHANGED <<auth_attempt, auth_result>>
             ELSE AuthAttemptFailed("otp")
    /\ UNCHANGED <<sessionFrame, gpLocals, runLocals, wgLocals, use_password,
                   auth_checks, cookie_file, page_marker>>

\* Lines 44-45: the forward button is clicked, which may log the session in,
\* and web_get(SEARCH_URL) is called.
AuthSubmit ==
    /\ pc = "auth_submit"
    /\ \E ok \in StepOutcomes :
       \E marker \in IF ok THEN BOOLEAN ELSE {page_marker} :
          /\ faults' = faults + StepCost(ok)
          /\ page_marker' = marker
          /\ IF ok
             THEN /\ pc' = "wg_enter" /\ wg_ret' = "auth_search"
                  /\ wg_attempts' = 0 /\ wg_result' = None
                  /\ auth_trace' = Append(auth_trace, <<"submit", "ok">>)
                  /\ UNCHANGED <<auth_attempt, auth_result>>
             ELSE AuthAttemptFailed("submit")
                  /\ UNCHANGED <<wg_ret, wg_attempts, wg_result>>
    /\ UNCHANGED <<sessionFrame, gpLocals, runLocals, use_password,
                   auth_checks, cookie_file>>

\* Lines 46-47: save_cookies, then return.
AuthSaveCookies ==
    /\ pc = "auth_save"
    /\ wg_result' = None
    /\ LET s == SaveCookies
       IN  IF s.raised # None
           THEN AuthAttemptFailed("save_cookies") /\ UNCHANGED cookie_file
           ELSE /\ cookie_file' = "saved"
                /\ auth_trace' = Append(auth_trace, <<"save_cookies", "ok">>)
                /\ pc' = "auth_done" /\ auth_result' = "returned"
                /\ UNCHANGED auth_attempt
    /\ UNCHANGED <<sessionFrame, gpLocals, runLocals, wg_attempts, wg_ret,
                   use_password, auth_checks, faults, page_marker>>

MainNext ==
    \/ GetRealIp
    \/ GetDriverAttempt
    \/ RunStart
    \/ WebGetEnter
    \/ WebGetNavigate
    \/ GpCheckLoggedIn
    \/ GpGetRideTypes
    \/ GpExtractAndSave
    \/ GpSaveCookies
    \/ RunAfterGetPrice
    \/ AuthCheckLoggedIn
    \/ AuthEnterPhone
    \/ AuthCheckPasswordOption
    \/ AuthEnterPassword
    \/ AuthHandleOtp
    \/ AuthSubmit
    \/ AuthSaveCookies
    \/ RunAfterAuthenticate

Spec == MainInit /\ [][MainNext]_vars

(***************************************************************************)
(* Properties of the scraper and of the flows.                             *)
(***************************************************************************)

\* C2: with real_ip = X and X observed on every check of a pool of size P,
\* the N-th consecutive leak detection signals LeakDetected for every
\* N <= P, and the (P+1)-th signals AllProxiesExhausted.
C2_LeakSignals ==
    (only_real_seen /\ leaks_seen >= 1) =>
        /\ real_ip = RealAddress
        /\ leaks_seen <= num_proxies => last_leak_signal = "LeakDetected"
        /\ leaks_seen = num_proxies + 1 =>
               last_leak_signal = "AllProxiesExhausted"

\* The (P+1)-th consecutive detection has happened, after P recoverable ones.
C2_Witness ==
    /\ only_real_seen /\ num_proxies >= 1
    /\ leaks_seen = num_proxies + 1
    /\ last_leak_signal = "AllProxiesExhausted"

\* C3: for a pool of size K the cursor stays in 0..K-1 and the i-th
\* selection returns entry ((i-1) mod K) + 1 of the pool: K consecutive
\* selections return every entry once in the pool's order and the
\* (K+1)-th returns the first again.
C3_RoundRobin ==
    /\ num_proxies > 0 => current_proxy_index \in 0..(num_proxies - 1)
    /\ \A i \in 1..Len(sel_log) :
          sel_log[i] = proxy_list[((i - 1) % num_proxies) + 1]

\* A pool of at least two entries was gone through and the first entry
\* selected again.
C3_Witness ==
    /\ num_proxies >= 2
    /\ Len(sel_log) >= num_proxies + 1
    /\ sel_log[num_proxies + 1] = proxy_list[1]
    /\ sel_log[num_proxies] = proxy_list[num_proxies]

\* C4: a navigation call gets a new session before it navigates exactly
\* when its call index is a positive multiple of the threshold, and session
\* creation is entered from a navigation call at such an index only.
C4_RotationThreshold ==
    /\ pc = "wg_nav" =>
          /\ wg_new_session <=> (num_calls > 0 /\ num_calls % threshold = 0)
          /\ wg_rotated <=> wg_new_session
    /\ (pc = "gd_body" /\ gd_ret = "wg") =>
          (num_calls > 0 /\ num_calls % threshold = 0)

\* The second call of a run with threshold 2 navigates on a new session.
C4_Witness ==
    /\ pc = "wg_nav" /\ threshold = 2 /\ num_calls = 2 /\ wg_new_session

\* The first call of a run with threshold 2 navigates on the session it found.
C4_WitnessNoRotation ==
    /\ pc = "wg_nav" /\ threshold = 2 /\ num_calls = 1 /\ ~wg_new_session

\* The steps run takes when get_price or authenticate hands control back.
RunStep ==
    /\ (pc = "gp_done" /\ phase = "gp1" /\ gp_result = "returned") =>
          /\ phase' = "done" /\ run_result' = <<"returned", None>>
          /\ auth_calls' = auth_calls /\ gp_calls' = gp_calls
    /\ (pc = "gp_done" /\ phase = "gp1" /\ gp_result # "returned") =>
          /\ phase' = "auth"
          /\ auth_calls' = auth_calls + 1 /\ gp_calls' = gp_calls
    /\ (pc = "auth_done" /\ auth_result = "returned") =>
          /\ phase' = "gp2"
          /\ gp_calls' = gp_calls + 1 /\ auth_calls' = auth_calls
    /\ (pc = "auth_done" /\ auth_result # "returned") =>
          /\ phase' = "done" /\ run_result' = <<"raised", auth_result>>
          /\ auth_calls' = auth_calls /\ gp_calls' = gp_calls
    /\ (pc = "gp_done" /\ phase = "gp2") =>
          /\ phase' = "done"
          /\ run_result' = IF gp_result = "returned" THEN <<"returned", None>>
                           ELSE <<"raised", gp_result>>
          /\ auth_calls' = auth_calls /\ gp_calls' = gp_calls
    /\ gp_calls' # gp_calls => pc \in {"ready", "auth_done"}
    /\ auth_calls' # auth_calls => pc = "gp_done"

\* C5: run calls get_price once; if and only if that call fails it calls
\* authenticate once and then get_price once more; a failure of
\* authenticate or of the second get_price is what run raises.  get_price
\* is called at most twice and authenticate at most once.
C5_SingleShotCompensation ==
    /\ [](gp_calls <= 2 /\ auth_calls <= 1)
    /\ [][RunStep]_vars

\* A run whose first extraction failed, whose authentication returned and
\* whose second extraction failed again has ended by raising.
C5_Witness ==
    /\ phase = "done" /\ gp_calls = 2 /\ auth_calls = 1
    /\ run_result[1] = "raised"

\* C6: authenticate makes at most 3 attempts; an exception raised within an
\* attempt is caught and the next attempt follows; after 3 failed attempts
\* AuthenticationFailed is raised; authenticate ends by returning or by
\* raising AuthenticationFailed.
C6_AuthBounded ==
    /\ auth_checks <= 3
    /\ (pc = "auth_done" /\ auth_checks >= 1) =>
          /\ auth_result \in {"returned", "AuthenticationFailed"}
          /\ auth_result = "AuthenticationFailed" => auth_checks = 3

\* What the code does: the bound of 3 attempts holds, and exceptions raised
\* inside the try block are caught; the logged-in check at the top of an
\* attempt is outside the try block, and what it raises leaves authenticate
\* as it is.
AuthBoundedTryBlock ==
    /\ auth_checks <= 3 /\ auth_attempt <= 2
    /\ (pc = "auth_done" /\ auth_checks >= 1) =>
          /\ auth_result = "AuthenticationFailed" =>
                (auth_checks = 3 /\ auth_attempt = 2)
          /\ auth_result \notin {"returned", "AuthenticationFailed"} =>
                auth_trace = <<>>

PasswordBranchUpToSave ==
    <<<<"phone", "ok">>, <<"password", "ok">>, <<"submit", "ok">>,
      <<"navigate", "ok">>>>

\* C7: when the password option is present and every page interaction
\* succeeds, authenticate enters the phone number, enters the password,
\* submits, navigates to the search page and saves the cookies, in this
\* order, and then returns without raising.
C7_AuthPasswordBranch ==
    (Len(auth_trace) = 5 /\ SubSeq(auth_trace, 1, 4) = PasswordBranchUpToSave) =>
        /\ auth_trace[5] = <<"save_cookies", "ok">>
        /\ pc = "auth_done"
        /\ auth_result = "returned"

\* What the code does on that path: the cookie save raises and the attempt
\* is counted as failed.
AuthPasswordBranchFailsAtSave ==
    (Len(auth_trace) = 5 /\ SubSeq(auth_trace, 1, 4) = PasswordBranchUpToSave) =>
        /\ auth_trace[5] = <<"save_cookies", "raised">>
        /\ cookie_file = Absent

\* C8: on a logged-in session with a list of 2 ride types get_price
\* produces 2 records, each with all 7 fields holding extracted text or the
\* sentinel, persists both, and returns normally.
C8_EndToEndExtraction ==
    /\ DOMAIN last_record # {} =>
          /\ DOMAIN last_record = RideFields
          /\ \A k \in RideFields : last_record[k] \in {"text", "EGP", Sentinel}
    /\ (pc = "gp_done" /\ gp_n = 2 /\ gp_i = 2) =>
          (gp_rows = 2 /\ gp_result = "returned")

\* What the code does: both records are produced and persisted, field
\* failures are replaced by the sentinel, and the cookie save that follows
\* raises out of get_price.
ExtractionFailsAtSave ==
    /\ DOMAIN last_record # {} => DOMAIN last_record = RideFields
    /\ (pc = "gp_save" /\ gp_n = 2) => (gp_i = 2 /\ gp_rows = 2)
    /\ (pc = "gp_done" /\ gp_n >= 1 /\ gp_i = gp_n) =>
          (gp_rows = gp_n /\ gp_result = "FileNotFoundError")

\* C11: when the marker is absent after the navigation to the deep link,
\* get_price fails with NotAuthenticated and has located no ride types,
\* extracted or persisted no record and saved no cookies; ride types are
\* located on a page with the marker only, and no call of authenticate is
\* made while get_price runs.
C11_RequiresLogin ==
    /\ pc \in {"gp_types", "gp_loop", "gp_save"} => page_marker
    /\ (pc = "gp_done" /\ gp_result = "NotAuthenticated") =>
          /\ ~page_marker
          /\ gp_n = 0 /\ gp_i = 0 /\ gp_rows = 0
          /\ DOMAIN last_record = {}
          /\ cookie_file = Absent
    /\ phase = "gp1" => auth_calls = 0
    /\ phase = "gp2" => auth_calls = 1

\* A get_price has failed with NotAuthenticated on a page without the marker.
C11_Witness ==
    /\ pc = "gp_done" /\ gp_result = "NotAuthenticated" /\ ~page_marker
    /\ phase = "gp1" /\ DriverAlive

\* C12: _get_real_ip returns the "Unknown" sentinel only after the third
\* attempt has failed: a step of the resolver that yields the sentinel is
\* the step of the third attempt, the two before it having failed and been
\* retried.
C12_IdentityResolver ==
    [][(pc = "init_real_ip" /\ real_ip' = UnknownIp) =>
          ip_attempts = RetryMaxAttempts - 1]_vars

\* What the code does: a RequestException is answered with the sentinel by
\* the attempt that meets it, the first included; only other exceptions
\* reach the retry wrapper.
IdentityResolverNoRetryOnNetworkFailure ==
    [][(pc = "init_real_ip" /\ ip_attempts' # ip_attempts /\ ip_attempts' # 0) =>
          (real_ip' = None /\ faults' = faults + 1)]_vars

\* Browser sessions that were instantiated and not quit.
LiveSessions == (IF DriverAlive THEN 1 ELSE 0) + orphans

\* C13: at most one browser session is live, and no session that was
\* instantiated and is not the current one remains un-quit.
C13_SingleSession ==
    /\ LiveSessions <= 1
    /\ orphans = 0

\* What the code does: get_driver quits the session current_driver refers
\* to before it creates another, and every session that fails the leak
\* check is left running: there are as many of those as leak detections.
SessionsLeakedByLeakCheck ==
    /\ orphans = leaks_seen
    /\ LiveSessions <= 1 + leaks_seen

\* C14: when a navigation lands on a CAPTCHA/interstitial url, web_get's
\* retry wrapper re-invokes the body, and web_get returns False for it only
\* once the third attempt has met it.
C14_SoftBlockRetried ==
    [][(pc = "wg_nav" /\ ~on_captcha /\ on_captcha') =>
          IF wg_attempts < RetryMaxAttempts - 1
          THEN pc' = "wg_enter" /\ wg_attempts' = wg_attempts + 1
          ELSE wg_result' = FALSE]_vars

\* What the code does: the WebDriverException raised for the CAPTCHA url is
\* caught by the except clause of the same try block, so the attempt that
\* meets it returns False and the retry wrapper is not involved.
SoftBlockReturnsFalseAtOnce ==
    [][(pc = "wg_nav" /\ ~on_captcha /\ on_captcha') =>
          (wg_result' = FALSE /\ wg_attempts' = 0 /\ pc' # "wg_enter")]_vars

\* The fatal condition the get_driver body of this step raises, None when
\* it raises none: the error of a proxy entry that does not parse, or
\* AllProxiesExhausted.
FatalRaisedByStep ==
    IF pc # "gd_body" THEN None
    ELSE IF num_proxies > 0
            /\ ConfigureProxy(proxy_list[current_proxy_index + 1]).raised # None
    THEN ConfigureProxy(proxy_list[current_proxy_index + 1]).raised
    ELSE IF leaks_seen' = leaks_seen + 1
            /\ last_leak_signal' = "AllProxiesExhausted"
    THEN "AllProxiesExhausted"
    ELSE None

\* C15: a fatal condition raised during session creation is not retried
\* and not masked: the step that raises it is followed by no further
\* session creation or navigation of that call, and the condition itself is
\* what the enclosing get_price, authenticate or constructor ends with.
C15_FatalNotRetried ==
    [][FatalRaisedByStep # None =>
          /\ pc' \notin {"gd_body", "wg_enter", "wg_nav"}
          /\ gd_ret = "init" => run_result' = <<"raised", FatalRaisedByStep>>
          /\ (gd_ret = "wg" /\ wg_ret = "gp") => gp_result' = FatalRaisedByStep
          /\ (gd_ret = "wg" /\ wg_ret # "gp") =>
                auth_result' = FatalRaisedByStep]_vars

\* What the code does: get_driver's retry wrapper treats a fatal condition
\* like any other exception and re-invokes the body until its third
\* attempt.
FatalRetriedLikeAnyFailure ==
    [][(FatalRaisedByStep # None /\ gd_attempts < RetryMaxAttempts - 1) =>
          (pc' = "gd_body" /\ gd_attempts' = gd_attempts + 1)]_vars

\* C16: when real_ip is the "Unknown" sentinel the leak check is disabled:
\* whatever the proxy ip lookup does, no leak is signalled and the
\* leak-retry counter is not incremented.
C16_FailOpen ==
    real_ip = UnknownIp =>
        /\ retries = 0 /\ leaks_seen = 0
        /\ last_leak_signal = None

\* What the code does: with real_ip "Unknown" a leak is detected exactly
\* when the lookup of the proxy ip fails, since the except clause stores
\* real_ip as the proxy ip; a lookup that answers never equals "Unknown".
FailOpenUnlessLookupFails ==
    [][(real_ip = UnknownIp /\ leaks_seen' # leaks_seen) =>
          current_proxy_ip' = UnknownIp]_vars

\* C17: whenever authenticate returns without raising, the logged-in
\* marker is present on the page of the live current session, also when a
\* navigation to the search page failed or was soft-blocked on the way.
C17_ReturnMeansLoggedIn ==
    (pc = "auth_done" /\ auth_result = "returned") =>
        (page_marker /\ DriverAlive)

\* authenticate has returned on a later attempt, after an attempt that
\* failed.
C17_Witness ==
    /\ pc = "auth_done" /\ auth_result = "returned"
    /\ auth_attempt >= 1 /\ page_marker

\* How authenticate returns: by the return of line 34 only; the return of
\* line 47 is never reached, since the save_cookies before it raises.
AuthReturnsAtLoopHeadOnly ==
    (pc = "auth_done" /\ auth_result = "returned") =>
        (auth_trace = <<>> /\ cookie_file = Absent)

\* The control points at which the next step navigates the current session
\* or queries its page.
SessionUsePoints ==
    {"wg_nav", "gp_check", "gp_types", "gp_loop", "auth_check", "auth_phone",
     "auth_challenge", "auth_password", "auth_otp", "auth_submit"}

\* C18: every navigation and every page query is issued on a live session:
\* the current session handle never designates a session that was quit.
C18_LiveSessionOnly ==
    /\ (current_driver # NoDriver /\ pc # "gd_body") => driver_alive
    /\ pc \in SessionUsePoints => DriverAlive

\* What the code does keep: a session is used after it was quit only once
\* a rotation has given up, and sessions are alive until the first
\* rotation.
QuitSessionUsedOnlyAfterFailedRotation ==
    (pc \in SessionUsePoints /\ ~DriverAlive) =>
        (current_driver # NoDriver /\ num_calls >= threshold)

\* A navigation is about to be issued on a session that was quit, and a
\* page query likewise.
NavigationOnQuitSession == pc = "wg_nav" /\ ~DriverAlive
QueryOnQuitSession == pc \in {"gp_check", "auth_check"} /\ ~DriverAlive

\* The marker check of authenticate is about to query a quit session after
\* a single injected failure.
QueryOnQuitSessionOneFault ==
    pc = "auth_check" /\ ~DriverAlive /\ faults = 1 /\ threshold = 2

\* C19: the leak counter measures the current run of consecutive leaks: a
\* get_driver that passes the leak check resets it, and a leak detected
\* right after a verified session, being the first of its run, signals
\* LeakDetected and never AllProxiesExhausted.
C19_ConsecutiveLeaksOnly ==
    [][/\ (pc = "gd_body" /\ num_proxies > 0 /\ driver_alive') =>
              retries' = 0
       /\ (pc = "gd_body" /\ DriverAlive /\ leaks_seen' = leaks_seen + 1) =>
              last_leak_signal' = "LeakDetected"]_vars

\* What the counter is: the number of leaks detected since construction.
LeakCounterIsTotal == retries = leaks_seen

\* Exhaustion of a pool of one was signalled by a rotation, after two leaks
\* with a verified session in between.
ExhaustedByNonConsecutiveLeaks ==
    /\ last_leak_signal = "AllProxiesExhausted"
    /\ num_proxies = 1 /\ leaks_seen = 2 /\ num_calls >= 1

\* C20: within one run, the record of a ride-type entry is handed to
\* _save_ride_data at most once: the second get_price persists no entry
\* that the first one has persisted.
C20_PersistedAtMostOnce ==
    \A i, j \in 1..Len(csv_rows) : i # j => csv_rows[i] # csv_rows[j]

\* What the code does keep: an entry is persisted at most once by each
\* get_price, hence at most twice in a run.
PersistedAtMostOncePerCall ==
    \A e \in 1..MaxRides :
        Cardinality({i \in 1..Len(csv_rows) : csv_rows[i] = e}) <= gp_calls

\* Both calls of get_price persisted every entry, without any injected
\* failure.
EveryEntryPersistedTwice ==
    /\ phase = "done" /\ faults = 0
    /\ csv_rows = <<1, 2, 1, 2>>

\* The first get_price persisted the first entry only, and the second
\* get_price persisted that entry again.
FirstEntryPersistedTwiceInARow ==
    Len(csv_rows) >= 2 /\ csv_rows[1] = 1 /\ csv_rows[2] = 1

====
